---- MODULE Spec2Model ----
(***************************************************************************)
(* A model of four parts of the Jaeger repository:                         *)
(*   - the OTel tag adjuster (package adjuster, OTelTagAdjuster);          *)
(*   - the storage integration harness (package integration):              *)
(*     skipIfNeeded, waitForCondition, InitArchiveStorage, testGetTrace,   *)
(*     testGetLatestProbability, testGetDependencies,                      *)
(*     loadParseAndWriteLargeTrace;                                        *)
(*   - the span, sampling and dependency stores behind the harness;        *)
(*   - tlscfg: CipherSuiteNamesToIDs and VersionNameToID.                  *)
(* Each part has its own specification over the module's variables; the    *)
(* variables of the other parts keep their initial values.                 *)
(***************************************************************************)
EXTENDS Integers, Sequences, FiniteSets, TLC

VARIABLES
    \* ---- adjuster: the heap reachable from the *model.Trace argument ----
    Spans,           \* trace.Spans: sequence of span references
    Tags,            \* span reference -> span.Tags
    Process,         \* span reference -> span.Process (a process reference)
    ProcessTags,     \* process reference -> process.Tags
    preSpans,        \* trace.Spans as it was before the latest call
    preTags,         \* Tags as they were before the latest call
    preProcessTags,  \* ProcessTags as they were before the latest call
    inTags,          \* Tags of the trace as first given, before any call
    calls,           \* "none" | "once" | "again": calls of the adjuster so far
    ret,             \* what the latest call returned
    \* ---- harness: one call of waitForCondition ----
    wpc,             \* "loop" (at the loop test) | "sleep" (before time.Sleep) | "done"
    wi,              \* the loop counter i
    evals,           \* evaluations of the predicate so far
    sleeps,          \* one-second sleeps so far
    lastStep,        \* "none" | "eval" | "sleep": the latest step of the call
    everTrue,        \* some evaluation of the predicate returned true
    wresult,         \* "none" until the call returns, then "true" or "false"
    \* ---- harness: skipIfNeeded ----
    SkipList,        \* s.SkipList: sequence of patterns (sequences of characters)
    tname,           \* t.Name() of the test that called skipIfNeeded last
    skipped,         \* "none" | "skipped" | "run" | "failed": what that call did to the test
    \* ---- harness: InitArchiveStorage ----
    ArchiveSpanReader,     \* s.ArchiveSpanReader: NilRef or a reader
    ArchiveSpanWriter,     \* s.ArchiveSpanWriter: NilRef or a writer
    preArchiveSpanReader,  \* s.ArchiveSpanReader before the latest call
    preArchiveSpanWriter,  \* s.ArchiveSpanWriter before the latest call
    factory,               \* the storageFactory argument of the latest call
    factoryCalls,          \* the methods the latest call invoked on the factory, in order
    logged,                \* the levels of the log entries the latest call wrote, in order
    archiveRet,            \* "none" | "true" | "false": what the latest call returned
    archiveCalls,          \* calls of InitArchiveStorage so far
    \* ---- span store behind the harness ----
    pending,         \* spans written and not yet visible to readers
    visible,         \* spans readers see
    gtQuery,         \* <<id>>: the TraceID of the latest GetTrace; <<>> before any
    gtTrace,         \* the *model.Trace it returned: NilTrace or the spans of the trace
    gtErr,           \* "none" | "nil" | "ErrTraceNotFound"
    readBack,        \* some GetTrace has returned a populated trace
    \* ---- sampling store behind the harness ----
    snapshots,       \* the snapshots inserted, oldest first: [host, probabilities]
    latest,          \* <<p>>: what the latest GetLatestProbabilities returned; <<>> before any
    \* ---- dependency store behind the harness ----
    depStore,        \* the snapshots written, in order: [ts, links]
    depReturnsSource,\* s.GetDependenciesReturnsSource
    depQuery,        \* <<[endTs, lookback]>> of the latest GetDependencies; <<>> before any
    depLinks,        \* the links it returned
    \* ---- harness: loadParseAndWriteLargeTrace ----
    fixtureSpan,     \* trace.Spans[0] of the example_trace fixture: [SpanID, StartTime]
    largeTrace,      \* the spans of the trace returned; <<>> before the call
    largeWrites,     \* calls of s.SpanWriter.WriteSpan made by writeTrace
    \* ---- tlscfg ----
    cipherNames,     \* <<names>>: the argument of the latest CipherSuiteNamesToIDs; <<>> before any
    cipherRet,       \* what it returned: [isNil, ids, err]
    versionName,     \* <<name>>: the argument of the latest VersionNameToID; <<>> before any
    versionRet       \* what it returned: [id, err]

adjVars == <<Spans, Tags, Process, ProcessTags, preSpans, preTags, preProcessTags, inTags,
             calls, ret>>

waitVars == <<wpc, wi, evals, sleeps, lastStep, everTrue, wresult>>

skipVars == <<SkipList, tname, skipped>>

archiveVars == <<ArchiveSpanReader, ArchiveSpanWriter, preArchiveSpanReader,
                 preArchiveSpanWriter, factory, factoryCalls, logged, archiveRet, archiveCalls>>

storeVars == <<pending, visible, gtQuery, gtTrace, gtErr, readBack>>

sampVars == <<snapshots, latest>>

depVars == <<depStore, depReturnsSource, depQuery, depLinks>>

largeVars == <<fixtureSpan, largeTrace, largeWrites>>

tlsVars == <<cipherNames, cipherRet, versionName, versionRet>>

\* The parts added to the harness model after the first five.
moreVars == <<sampVars, depVars, largeVars, tlsVars>>

vars == <<adjVars, waitVars, skipVars, archiveVars, storeVars, moreVars>>

(***************************************************************************)
(* Bounds of the model.                                                    *)
(***************************************************************************)
MaxSpans == 2        \* spans in the input trace
MaxTraceTags == 3    \* tags in the input trace, over all Span.Tags and Process.Tags
MaxSkipList == 2     \* entries of SkipList
MaxPatLen == 2       \* characters of a SkipList entry
MaxNameLen == 2      \* characters of a test name
MaxArchiveCalls == 3 \* calls of InitArchiveStorage
MaxWrites == 3       \* spans held by the span store
MaxSnapshots == 2    \* snapshots inserted into the sampling store
MaxDepWrites == 1    \* snapshots written to the dependency store
MaxTime == 3         \* the latest instant of the dependency store's clock
MaxFixtureSpanID == 12 \* the largest small SpanID tried for the first fixture span
MaxCipherNames == 3  \* names passed to CipherSuiteNamesToIDs

(***************************************************************************)
(* model.KeyValue, reduced to Key and a string value.                      *)
(***************************************************************************)
KV(k, v) == [Key |-> k, Value |-> v]

otelLibraryKeys ==
    { "telemetry.sdk.language", "telemetry.sdk.name", "telemetry.sdk.version",
      "telemetry.distro.name", "telemetry.distro.version" }

\* The tags input traces are built from: two non-OTel tags, two OTel tags
\* with the same key and one OTel tag with a greater key.
TagUniverse ==
    { KV("http.method", "GET"), KV("db.system", "pg"),
      KV("telemetry.sdk.name", "x"), KV("telemetry.sdk.name", "y"),
      KV("telemetry.sdk.version", "1.2") }

\* Go compares strings bytewise; these are the keys in ascending order.
KeyOrder ==
    << "db.system", "http.method", "telemetry.distro.name", "telemetry.distro.version",
       "telemetry.sdk.language", "telemetry.sdk.name", "telemetry.sdk.version" >>

KeyRank(k) == CHOOSE i \in 1..Len(KeyOrder) : KeyOrder[i] = k

KeyLess(a, b) == KeyRank(a) < KeyRank(b)

(***************************************************************************)
(* model.KeyValues(...).Sort(): a stable sort by Key (insertion sort).     *)
(***************************************************************************)
RECURSIVE InsertByKey(_, _)
InsertByKey(sorted, kv) ==
    IF sorted = <<>> THEN <<kv>>
    ELSE IF KeyLess(kv.Key, sorted[Len(sorted)].Key)
         THEN Append(InsertByKey(SubSeq(sorted, 1, Len(sorted) - 1), kv), sorted[Len(sorted)])
         ELSE Append(sorted, kv)

RECURSIVE KeyValuesSort(_)
KeyValuesSort(kvs) ==
    IF kvs = <<>> THEN <<>>
    ELSE InsertByKey(KeyValuesSort(SubSeq(kvs, 1, Len(kvs) - 1)), kvs[Len(kvs)])

(***************************************************************************)
(* adjustSpanTags: the loop over span.Tags.  arr is the backing array of   *)
(* span.Tags (indices from 1), i the loop index, newI the number of tags   *)
(* kept so far, pt the span's Process.Tags.                                *)
(***************************************************************************)
RECURSIVE adjustLoopKeepsPromoted(_, _, _, _)
adjustLoopKeepsPromoted(arr, i, newI, pt) ==
    IF i > Len(arr) THEN [arr |-> arr, newI |-> newI, pt |-> pt]
    ELSE LET tag == arr[i]
             pt2 == IF tag.Key \in otelLibraryKeys THEN Append(pt, tag) ELSE pt
         IN  adjustLoopKeepsPromoted(
                 IF i # newI + 1 THEN [arr EXCEPT ![newI + 1] = tag] ELSE arr,
                 i + 1, newI + 1, pt2)

RECURSIVE adjustLoop(_, _, _, _)
adjustLoop(arr, i, newI, pt) ==
    IF i > Len(arr) THEN [arr |-> arr, newI |-> newI, pt |-> pt]
    ELSE LET tag == arr[i]
         IN  IF tag.Key \in otelLibraryKeys
             THEN adjustLoop(arr, i + 1, newI, Append(pt, tag))
             ELSE adjustLoop(
                      IF i # newI + 1 THEN [arr EXCEPT ![newI + 1] = tag] ELSE arr,
                      i + 1, newI + 1, pt)

adjustSpanTagsNoTruncate(spanTags, procTags) ==
    LET r == adjustLoop(spanTags, 1, 0, procTags)
    IN  [Tags |-> r.arr, ProcessTags |-> r.pt]

adjustSpanTags(spanTags, procTags) ==
    LET r == adjustLoop(spanTags, 1, 0, procTags)
    IN  [Tags |-> SubSeq(r.arr, 1, r.newI), ProcessTags |-> r.pt]

(***************************************************************************)
(* The body of the loop over trace.Spans: adjustSpanTags(span), then the   *)
(* sort of span.Process.Tags.  h is the heap [Tags, ProcessTags]; Process  *)
(* is not assigned by the adjuster.                                        *)
(***************************************************************************)
adjustSpanSortIfPromoted(h, s) ==
    LET p == Process[s]
        r == adjustSpanTags(h.Tags[s], h.ProcessTags[p])
    IN  [Tags        |-> [h.Tags EXCEPT ![s] = r.Tags],
         ProcessTags |-> [h.ProcessTags EXCEPT ![p] =
                             IF r.ProcessTags # h.ProcessTags[p]
                             THEN KeyValuesSort(r.ProcessTags) ELSE r.ProcessTags]]

adjustSpan(h, s) ==
    LET p == Process[s]
        r == adjustSpanTags(h.Tags[s], h.ProcessTags[p])
    IN  [Tags        |-> [h.Tags EXCEPT ![s] = r.Tags],
         ProcessTags |-> [h.ProcessTags EXCEPT ![p] = KeyValuesSort(r.ProcessTags)]]

RECURSIVE adjustSpans(_, _, _)
adjustSpans(h, spans, k) ==
    IF k > Len(spans) THEN h
    ELSE adjustSpans(adjustSpan(h, spans[k]), spans, k + 1)

(***************************************************************************)
(* OTelTagAdjuster's Func applied to the trace: the heap after the call    *)
(* and the returned (trace, error).  The trace returned is the argument:   *)
(* "arg" names that pointer, Spans its Spans field.                        *)
(***************************************************************************)
RECURSIVE NonEmptySpans(_, _)
NonEmptySpans(spans, tags) ==
    IF spans = <<>> THEN <<>>
    ELSE LET rest == NonEmptySpans(Tail(spans), tags)
         IN  IF tags[Head(spans)] = <<>> THEN rest ELSE <<Head(spans)>> \o rest

OTelTagAdjusterDropsEmpty(spans, h) ==
    LET h2 == adjustSpans(h, spans, 1)
    IN  [heap |-> h2, Spans |-> NonEmptySpans(spans, h2.Tags), trace |-> "arg", err |-> "nil"]

OTelTagAdjusterOnCopy(spans, h) ==
    [heap |-> h, Spans |-> spans, trace |-> "copy", err |-> "nil"]

OTelTagAdjuster(spans, h) ==
    [heap |-> adjustSpans(h, spans, 1), Spans |-> spans, trace |-> "arg", err |-> "nil"]

(***************************************************************************)
(* Input traces.  A trace of n spans and np processes holds n + np tag     *)
(* lists (every Span.Tags, then every Process.Tags) with at most           *)
(* MaxTraceTags tags together: flat is their concatenation and lens their  *)
(* lengths.  ProcessAssignments(n): which process each of n spans points   *)
(* to; processes are numbered in order of first use, and spans may share   *)
(* one.  Every span has a Process (data model: Process is non-null).       *)
(***************************************************************************)
RECURSIVE SumTo(_, _)
SumTo(lens, k) == IF k = 0 THEN 0 ELSE lens[k] + SumTo(lens, k - 1)

LengthVectors(slots, total) ==
    { lens \in [1..slots -> 0..total] : SumTo(lens, slots) = total }

Slot(flat, lens, k) == SubSeq(flat, SumTo(lens, k - 1) + 1, SumTo(lens, k))

MaxOf(S) == IF S = {} THEN 0 ELSE CHOOSE m \in S : \A x \in S : x <= m

ProcessAssignments(n) ==
    { f \in [1..n -> 1..n] :
        \A k \in 1..n : f[k] <= MaxOf({ f[j] : j \in 1..(k - 1) }) + 1 }

NoReturn == [trace |-> "none", Spans |-> <<>>, err |-> "none"]

AdjInit ==
    \E n \in 0..MaxSpans :
      \E pa \in ProcessAssignments(n) :
        LET np == MaxOf({ pa[k] : k \in 1..n })
        IN  \E total \in 0..MaxTraceTags :
              \E lens \in LengthVectors(n + np, total) :
                \E flat \in [1..total -> TagUniverse] :
              /\ Spans = [k \in 1..n |-> k]
              /\ Tags = [k \in 1..n |-> Slot(flat, lens, k)]
              /\ Process = pa
              /\ ProcessTags = [p \in 1..np |-> Slot(flat, lens, n + p)]
              /\ preSpans = Spans
              /\ preTags = Tags
              /\ preProcessTags = ProcessTags
              /\ inTags = Tags
              /\ calls = "none"
              /\ ret = NoReturn

\* One call adjuster.Adjust(trace) on the trace built so far.
Adjust ==
    LET r == OTelTagAdjuster(Spans, [Tags |-> Tags, ProcessTags |-> ProcessTags])
    IN  /\ preSpans' = Spans
        /\ preTags' = Tags
        /\ preProcessTags' = ProcessTags
        /\ Spans' = r.Spans
        /\ Tags' = r.heap.Tags
        /\ ProcessTags' = r.heap.ProcessTags
        /\ ret' = [trace |-> r.trace, Spans |-> r.Spans, err |-> r.err]
        /\ calls' = IF calls = "none" THEN "once" ELSE "again"
        /\ UNCHANGED <<Process, inTags>>

(***************************************************************************)
(* Properties of the adjuster.                                             *)
(***************************************************************************)
IsOTel(kv) == kv.Key \in otelLibraryKeys

HasOTel(kvs) == \E i \in DOMAIN kvs : IsOTel(kvs[i])

HasNonOTel(kvs) == \E i \in DOMAIN kvs : ~IsOTel(kvs[i])

RECURSIVE Filter(_, _)
Filter(kvs, keep) ==
    IF kvs = <<>> THEN <<>>
    ELSE LET rest == Filter(Tail(kvs), keep)
         IN  IF Head(kvs) \in keep THEN <<Head(kvs)>> \o rest ELSE rest

NonOTelOf(kvs) == Filter(kvs, { kv \in TagUniverse : ~IsOTel(kv) })

OTelOf(kvs) == Filter(kvs, { kv \in TagUniverse : IsOTel(kv) })

WithKey(kvs, k) == Filter(kvs, { kv \in TagUniverse : kv.Key = k })

SortedByKey(kvs) ==
    \A i \in DOMAIN kvs : \A j \in DOMAIN kvs :
        i < j => ~KeyLess(kvs[j].Key, kvs[i].Key)

\* What the latest call appended to process p, in the order of the appends:
\* the OTel tags of the spans of p, span after span in trace order.
RECURSIVE PromotedTo(_, _)
PromotedTo(p, spans) ==
    IF spans = <<>> THEN <<>>
    ELSE (IF Process[Head(spans)] = p THEN OTelOf(preTags[Head(spans)]) ELSE <<>>)
         \o PromotedTo(p, Tail(spans))

SpanRefs == { Spans[k] : k \in DOMAIN Spans }

\* C1: after the adjuster has run, no tag of any Span.Tags has a key of the
\* OTel-library key set, and every such tag that was in the span's Tags
\* before the call is in that span's Process.Tags.
C1_PromotedOutOfSpanTags ==
    calls # "none" =>
        \A s \in SpanRefs :
            /\ ~HasOTel(Tags[s])
            /\ \A i \in DOMAIN preTags[s] :
                   IsOTel(preTags[s][i]) =>
                       \E j \in DOMAIN ProcessTags[Process[s]] :
                           ProcessTags[Process[s]][j] = preTags[s][i]

C1_Witness ==
    /\ calls = "once"
    /\ \E s \in SpanRefs : HasOTel(preTags[s]) /\ HasNonOTel(preTags[s])

\* C2: the adjuster is idempotent: a call on a trace that has been adjusted
\* before leaves every Span.Tags and every Process.Tags as the first call
\* left them.
C2_Idempotent ==
    calls = "again" => Tags = preTags /\ ProcessTags = preProcessTags

C2_Witness ==
    /\ calls = "again"
    /\ \E s \in SpanRefs : HasOTel(inTags[s]) /\ HasNonOTel(inTags[s])
    /\ \E s \in SpanRefs : Tags[s] # inTags[s]

\* C3: after the adjuster has run, each Span.Tags holds exactly the non-OTel
\* tags it held before, in their original relative order.
C3_KeptTagsInOrder ==
    calls # "none" => \A s \in SpanRefs : Tags[s] = NonOTelOf(preTags[s])

C3_Witness ==
    /\ calls = "once"
    /\ \E s \in SpanRefs :
          /\ Len(preTags[s]) = 3
          /\ IsOTel(preTags[s][1])
          /\ Len(Tags[s]) = 2
          /\ Tags[s][1] # Tags[s][2]

\* C4: after the adjuster has run, every span's Process.Tags is sorted
\* ascending by Key, whether or not a tag of that span was promoted, and
\* tags with equal keys keep the relative order they had in the list
\* Process.Tags ++ promoted tags.
C4_ProcessTagsSortedStable ==
    calls # "none" =>
        \A s \in SpanRefs :
            LET p == Process[s]
                appended == preProcessTags[p] \o PromotedTo(p, preSpans)
            IN  /\ SortedByKey(ProcessTags[p])
                /\ Len(ProcessTags[p]) = Len(appended)
                /\ \A kv \in TagUniverse :
                       WithKey(ProcessTags[p], kv.Key) = WithKey(appended, kv.Key)

C4_Witness ==
    /\ calls = "once"
    /\ \E s \in SpanRefs :
          /\ ~SortedByKey(preProcessTags[Process[s]])
          /\ PromotedTo(Process[s], preSpans) = <<>>
    /\ \E s \in SpanRefs :
          \E i \in DOMAIN ProcessTags[Process[s]] : \E j \in DOMAIN ProcessTags[Process[s]] :
              /\ i < j
              /\ ProcessTags[Process[s]][i].Key = ProcessTags[Process[s]][j].Key
              /\ ProcessTags[Process[s]][i] # ProcessTags[Process[s]][j]

\* C5: the adjuster returns a nil error and a trace with the spans of the
\* input, in the same number and order.
C5_NoErrorNoSpanDropped ==
    calls # "none" =>
        /\ ret.err = "nil"
        /\ ret.trace \notin { "nil", "none" }
        /\ ret.Spans = preSpans

C5_Witness ==
    /\ calls = "once"
    /\ Len(preSpans) = 2
    /\ ret.Spans = <<1, 2>>
    /\ \E s \in SpanRefs : preTags[s] # <<>> /\ Tags[s] = <<>>

\* C6 as stated: the adjuster leaves the Tags and Process.Tags of the trace
\* it was given as they were.
C6_InputLeftUnmodified ==
    calls # "none" => Tags = preTags /\ ProcessTags = preProcessTags

\* C6 as amended: the adjuster works in place.  It returns the Trace it was
\* given, and for every span whose Tags held an OTel tag the call changed
\* that span's Tags and its Process.Tags in the trace it was given.
C6_AdjustsInPlace ==
    calls # "none" =>
        /\ ret.trace = "arg"
        /\ \A s \in SpanRefs :
               HasOTel(preTags[s]) =>
                   /\ Len(Tags[s]) < Len(preTags[s])
                   /\ Len(ProcessTags[Process[s]]) > Len(preProcessTags[Process[s]])

C6_Witness ==
    /\ calls = "once"
    /\ ret.trace = "arg"
    /\ \E s \in SpanRefs : HasOTel(preTags[s]) /\ Tags[s] # preTags[s]

\* How many times kv occurs in kvs.
RECURSIVE Occurrences(_, _)
Occurrences(kvs, kv) ==
    IF kvs = <<>> THEN 0
    ELSE (IF Head(kvs) = kv THEN 1 ELSE 0) + Occurrences(Tail(kvs), kv)

\* No two spans of the trace point to the same Process.
ExclusiveProcesses ==
    \A s \in SpanRefs : \A t \in SpanRefs : Process[s] = Process[t] => s = t

\* C19: when every span owns its Process exclusively, the adjuster neither
\* creates nor destroys a tag: for every span, each tag occurs in Span.Tags
\* and Process.Tags together as often after the call as before it, and the
\* non-OTel tags of Span.Tags and the tags Process.Tags held stay where
\* they were.
C19_TagsConserved ==
    (calls # "none" /\ ExclusiveProcesses) =>
        \A s \in SpanRefs : \A kv \in TagUniverse :
            /\ Occurrences(Tags[s], kv) + Occurrences(ProcessTags[Process[s]], kv)
                 = Occurrences(preTags[s], kv) + Occurrences(preProcessTags[Process[s]], kv)
            /\ ~IsOTel(kv) => Occurrences(Tags[s], kv) = Occurrences(preTags[s], kv)
            /\ IsOTel(kv) =>
                   Occurrences(ProcessTags[Process[s]], kv)
                     = Occurrences(preProcessTags[Process[s]], kv) + Occurrences(preTags[s], kv)

C19_Witness ==
    /\ calls = "once"
    /\ ExclusiveProcesses
    /\ Len(Spans) = 2
    /\ \E s \in SpanRefs : \E kv \in TagUniverse :
          /\ IsOTel(kv)
          /\ Occurrences(preTags[s], kv) = 2
          /\ Occurrences(ProcessTags[Process[s]], kv) = 3

(***************************************************************************)
(* waitForCondition.  The predicate is a callback that reads the storage   *)
(* backend: each evaluation may return either value.                       *)
(***************************************************************************)
iterations == 100

LoopTestInclusive(i) == i <= iterations

LoopTest(i) == i < iterations

WaitInit ==
    /\ wpc = "loop"
    /\ wi = 0
    /\ evals = 0
    /\ sleeps = 0
    /\ lastStep = "none"
    /\ everTrue = FALSE
    /\ wresult = "none"

WaitIterateIgnoresResult ==
    /\ wpc = "loop"
    /\ LoopTest(wi)
    /\ \E b \in BOOLEAN :
          /\ evals' = evals + 1
          /\ lastStep' = "eval"
          /\ everTrue' = (everTrue \/ b)
    /\ wpc' = "sleep"
    /\ UNCHANGED <<wi, sleeps, wresult>>

\* for i < iterations: t.Logf(...); if predicate(t) { return true }
WaitIterate ==
    /\ wpc = "loop"
    /\ LoopTest(wi)
    /\ \E b \in BOOLEAN :
          /\ evals' = evals + 1
          /\ lastStep' = "eval"
          /\ everTrue' = (everTrue \/ b)
          /\ wpc' = IF b THEN "done" ELSE "sleep"
          /\ wresult' = IF b THEN "true" ELSE wresult
    /\ UNCHANGED <<wi, sleeps>>

\* time.Sleep(time.Second); i++
WaitSleep ==
    /\ wpc = "sleep"
    /\ sleeps' = sleeps + 1
    /\ wi' = wi + 1
    /\ lastStep' = "sleep"
    /\ wpc' = "loop"
    /\ UNCHANGED <<evals, everTrue, wresult>>

\* after the loop: return predicate(t)
WaitReturn ==
    /\ wpc = "loop"
    /\ ~LoopTest(wi)
    /\ \E b \in BOOLEAN :
          /\ evals' = evals + 1
          /\ lastStep' = "eval"
          /\ everTrue' = (everTrue \/ b)
          /\ wresult' = IF b THEN "true" ELSE "false"
    /\ wpc' = "done"
    /\ UNCHANGED <<wi, sleeps>>

\* C7: waitForCondition sleeps at most iterations (100) times and evaluates
\* the predicate at most 101 times; every sleep is followed by an
\* evaluation; the call returns right after an evaluation; and when no
\* evaluation returned true it has slept 100 times and evaluated 101 times,
\* the last time after the loop.
C7_AtMostHundredSleeps ==
    /\ sleeps <= iterations
    /\ evals <= iterations + 1
    /\ (lastStep = "sleep" => wpc = "loop" /\ evals = sleeps)
    /\ (wpc = "done" => lastStep = "eval" /\ evals = sleeps + 1)
    /\ (wpc = "done" /\ ~everTrue =>
            /\ sleeps = iterations
            /\ evals = iterations + 1
            /\ ~LoopTest(wi)
            /\ wresult = "false")

C7_Witness ==
    /\ wpc = "done"
    /\ ~everTrue
    /\ sleeps = 100
    /\ evals = 101

\* What holds of every state of a call: once an evaluation has returned
\* true the call has returned true, right after that evaluation; and a call
\* that has returned has returned true exactly if an evaluation returned
\* true, and false only after the evaluation that follows the loop.
WaitResultInv ==
    /\ everTrue => wpc = "done" /\ wresult = "true" /\ lastStep = "eval"
    /\ wpc = "done" => /\ wresult \in { "true", "false" }
                       /\ (wresult = "true" <=> everTrue)
                       /\ (wresult = "false" => ~LoopTest(wi) /\ evals = iterations + 1)
    /\ wpc # "done" => wresult = "none"

\* C17: waitForCondition returns true if and only if some evaluation of the
\* predicate returned true; after an evaluation has returned true there is
\* no further sleep and no further evaluation (no step at all); and every
\* call returns.
C17_ReturnsFirstTrue ==
    /\ []WaitResultInv
    /\ [][~everTrue /\ wpc # "done"]_waitVars
    /\ <>(wpc = "done")

C17_Witness ==
    /\ wpc = "done"
    /\ wresult = "true"
    /\ sleeps = 2
    /\ evals = 3

(***************************************************************************)
(* skipIfNeeded.  Strings are sequences of one-character strings.          *)
(* The regular expressions are those over literals, ".", a postfix "*",    *)
(* "\" followed by a character (that character, literally) and "|"         *)
(* between alternatives; regexp.MatchString reports whether the pattern    *)
(* matches some substring of the text.                                     *)
(***************************************************************************)
PatChars == { "a", ".", "*", "|" }

NameChars == { "a", "b", "." }

\* regexp.QuoteMeta escapes these.
MetaChars == { "\\", ".", "+", "*", "?", "(", ")", "|", "[", "]", "{", "}", "^", "$" }

RECURSIVE QuoteMeta(_)
QuoteMeta(str) ==
    IF str = <<>> THEN <<>>
    ELSE (IF Head(str) \in MetaChars THEN << "\\", Head(str) >> ELSE << Head(str) >>)
         \o QuoteMeta(Tail(str))

\* The alternatives of a pattern: the pattern split at each unescaped "|".
RECURSIVE Alternatives(_, _)
Alternatives(pat, cur) ==
    IF pat = <<>> THEN << cur >>
    ELSE IF Head(pat) = "\\" /\ Len(pat) >= 2
         THEN Alternatives(SubSeq(pat, 3, Len(pat)), cur \o SubSeq(pat, 1, 2))
         ELSE IF Head(pat) = "|"
              THEN << cur >> \o Alternatives(Tail(pat), <<>>)
              ELSE Alternatives(Tail(pat), Append(cur, Head(pat)))

\* The length of the atom an alternative starts with: "\c" or one character.
AtomLen(alt) == IF Head(alt) = "\\" THEN 2 ELSE 1

\* regexp.Compile succeeds: no "*" without an operand, no "**", no trailing "\".
RECURSIVE AlternativeCompiles(_)
AlternativeCompiles(alt) ==
    IF alt = <<>> THEN TRUE
    ELSE IF Head(alt) = "*" THEN FALSE
         ELSE IF Len(alt) < AtomLen(alt) THEN FALSE
              ELSE LET rest == SubSeq(alt, AtomLen(alt) + 1, Len(alt))
                   IN  IF rest # <<>> /\ Head(rest) = "*"
                       THEN AlternativeCompiles(Tail(rest))
                       ELSE AlternativeCompiles(rest)

Compiles(pat) ==
    LET alts == Alternatives(pat, <<>>)
    IN  \A k \in DOMAIN alts : AlternativeCompiles(alts[k])

AtomMatches(alt, c) ==
    IF Head(alt) = "\\" THEN alt[2] = c
    ELSE IF Head(alt) = "." THEN TRUE
         ELSE Head(alt) = c

\* The alternative matches a prefix of str.
RECURSIVE MatchHere(_, _)
MatchHere(alt, str) ==
    IF alt = <<>> THEN TRUE
    ELSE LET rest == SubSeq(alt, AtomLen(alt) + 1, Len(alt))
         IN  IF rest # <<>> /\ Head(rest) = "*"
             THEN \E k \in 0..Len(str) :
                      /\ \A j \in 1..k : AtomMatches(alt, str[j])
                      /\ MatchHere(Tail(rest), SubSeq(str, k + 1, Len(str)))
             ELSE /\ str # <<>>
                  /\ AtomMatches(alt, Head(str))
                  /\ MatchHere(rest, Tail(str))

\* regexp.MatchString(pattern, s): (matched, err).
MatchString(pat, str) ==
    IF ~Compiles(pat) THEN [ok |-> FALSE, err |-> TRUE]
    ELSE LET alts == Alternatives(pat, <<>>)
         IN  [ok  |-> \E k \in DOMAIN alts : \E from \in 1..(Len(str) + 1) :
                          MatchHere(alts[k], SubSeq(str, from, Len(str))),
              err |-> FALSE]

\* The pattern matched against the test name in the loop of skipIfNeeded.
escapedPat(pat) == QuoteMeta(pat)

\* skipIfNeeded from entry k on: "failed" when require.NoError stops the
\* test, "skipped" when t.Skip() was called, "run" when the loop ended.
RECURSIVE skipIfNeeded(_, _, _)
skipIfNeeded(list, name, k) ==
    IF k > Len(list) THEN "run"
    ELSE LET r == MatchString(escapedPat(list[k]), name)
         IN  IF r.err THEN "failed"
             ELSE IF r.ok THEN "skipped"
                  ELSE skipIfNeeded(list, name, k + 1)

StringsUpTo(chars, n) == UNION { [1..l -> chars] : l \in 0..n }

Patterns == StringsUpTo(PatChars, MaxPatLen)

TestNames == StringsUpTo(NameChars, MaxNameLen) \ { <<>> }

SkipInit ==
    /\ SkipList \in UNION { [1..l -> Patterns] : l \in 0..MaxSkipList }
    /\ tname = <<>>
    /\ skipped = "none"

\* A test of the suite starts and calls s.skipIfNeeded(t).
RunSkipIfNeeded ==
    \E name \in TestNames :
        /\ tname' = name
        /\ skipped' = skipIfNeeded(SkipList, name, 1)
        /\ UNCHANGED SkipList

\* C8: with every SkipList entry a regular expression that compiles, the
\* test is skipped if and only if its name matches at least one entry
\* taken as a regular expression.
C8_SkipIffRegexMatches ==
    (skipped # "none" /\ \A k \in DOMAIN SkipList : Compiles(SkipList[k])) =>
        (skipped = "skipped" <=>
            \E k \in DOMAIN SkipList : MatchString(SkipList[k], tname).ok)

(***************************************************************************)
(* InitArchiveStorage.  A factory is described by what the code can see    *)
(* of it: whether it implements storage.ArchiveFactory and whether its     *)
(* CreateArchiveSpanReader / CreateArchiveSpanWriter return an error.      *)
(* The reader and writer a call creates are named after the call.          *)
(***************************************************************************)
\* References to readers and writers: nil, or the object some call created
\* (call 0: one the harness was built with).
NilRef == [kind |-> "nil", call |-> 0]

ReaderRef(n) == [kind |-> "reader", call |-> n]

WriterRef(n) == [kind |-> "writer", call |-> n]

Factories == [archive : BOOLEAN, readerErr : BOOLEAN, writerErr : BOOLEAN]

NoFactory == [archive |-> FALSE, readerErr |-> FALSE, writerErr |-> FALSE]

InitArchiveStorageErrorWhenUnsupported(reader, writer, f, n) ==
    IF ~f.archive
    THEN [reader |-> reader, writer |-> writer, calls |-> <<>>,
          logged |-> << "error" >>, ret |-> "false"]
    ELSE IF f.readerErr
    THEN [reader |-> reader, writer |-> writer,
          calls |-> << "CreateArchiveSpanReader" >>,
          logged |-> << "error" >>, ret |-> "false"]
    ELSE IF f.writerErr
    THEN [reader |-> reader, writer |-> writer,
          calls |-> << "CreateArchiveSpanReader", "CreateArchiveSpanWriter" >>,
          logged |-> << "error" >>, ret |-> "false"]
    ELSE [reader |-> ReaderRef(n), writer |-> WriterRef(n),
          calls |-> << "CreateArchiveSpanReader", "CreateArchiveSpanWriter" >>,
          logged |-> <<>>, ret |-> "true"]

InitArchiveStorageAssignsReaderEarly(reader, writer, f, n) ==
    IF ~f.archive
    THEN [reader |-> reader, writer |-> writer, calls |-> <<>>,
          logged |-> << "info" >>, ret |-> "false"]
    ELSE IF f.readerErr
    THEN [reader |-> reader, writer |-> writer,
          calls |-> << "CreateArchiveSpanReader" >>,
          logged |-> << "error" >>, ret |-> "false"]
    ELSE IF f.writerErr
    THEN [reader |-> ReaderRef(n), writer |-> writer,
          calls |-> << "CreateArchiveSpanReader", "CreateArchiveSpanWriter" >>,
          logged |-> << "error" >>, ret |-> "false"]
    ELSE [reader |-> ReaderRef(n), writer |-> WriterRef(n),
          calls |-> << "CreateArchiveSpanReader", "CreateArchiveSpanWriter" >>,
          logged |-> <<>>, ret |-> "true"]

InitArchiveStorage(reader, writer, f, n) ==
    IF ~f.archive
    THEN [reader |-> reader, writer |-> writer, calls |-> <<>>,
          logged |-> << "info" >>, ret |-> "false"]
    ELSE IF f.readerErr
    THEN [reader |-> reader, writer |-> writer,
          calls |-> << "CreateArchiveSpanReader" >>,
          logged |-> << "error" >>, ret |-> "false"]
    ELSE IF f.writerErr
    THEN [reader |-> reader, writer |-> writer,
          calls |-> << "CreateArchiveSpanReader", "CreateArchiveSpanWriter" >>,
          logged |-> << "error" >>, ret |-> "false"]
    ELSE [reader |-> ReaderRef(n), writer |-> WriterRef(n),
          calls |-> << "CreateArchiveSpanReader", "CreateArchiveSpanWriter" >>,
          logged |-> <<>>, ret |-> "true"]

\* The harness is built with any archive reader and writer, or none.
ArchiveInit ==
    /\ ArchiveSpanReader \in { NilRef, ReaderRef(0) }
    /\ ArchiveSpanWriter \in { NilRef, WriterRef(0) }
    /\ preArchiveSpanReader = ArchiveSpanReader
    /\ preArchiveSpanWriter = ArchiveSpanWriter
    /\ factory = NoFactory
    /\ factoryCalls = <<>>
    /\ logged = <<>>
    /\ archiveRet = "none"
    /\ archiveCalls = 0

CallInitArchiveStorage ==
    /\ archiveCalls < MaxArchiveCalls
    /\ \E f \in Factories :
          LET r == InitArchiveStorage(ArchiveSpanReader, ArchiveSpanWriter, f, archiveCalls + 1)
          IN  /\ factory' = f
              /\ preArchiveSpanReader' = ArchiveSpanReader
              /\ preArchiveSpanWriter' = ArchiveSpanWriter
              /\ ArchiveSpanReader' = r.reader
              /\ ArchiveSpanWriter' = r.writer
              /\ factoryCalls' = r.calls
              /\ logged' = r.logged
              /\ archiveRet' = r.ret
    /\ archiveCalls' = archiveCalls + 1

InSeq(x, seq) == \E k \in DOMAIN seq : seq[k] = x

\* C9: for a factory that does not implement ArchiveFactory the call
\* returns false, logs nothing at error level and calls neither
\* CreateArchiveSpanReader nor CreateArchiveSpanWriter; and the call returns
\* true only for a factory that implements ArchiveFactory and whose reader
\* and writer were both created without error.
C9_UnsupportedIsBenign ==
    archiveRet # "none" =>
        /\ ~factory.archive =>
               /\ archiveRet = "false"
               /\ ~InSeq("error", logged)
               /\ factoryCalls = <<>>
        /\ archiveRet = "true" =>
               /\ factory.archive /\ ~factory.readerErr /\ ~factory.writerErr
               /\ factoryCalls = << "CreateArchiveSpanReader", "CreateArchiveSpanWriter" >>
               /\ ~InSeq("error", logged)

C9_Witness ==
    /\ archiveRet = "false"
    /\ ~factory.archive
    /\ logged = << "info" >>
    /\ archiveCalls >= 2
    /\ preArchiveSpanReader # NilRef

\* C18: a call that returns false leaves ArchiveSpanReader and
\* ArchiveSpanWriter as they were; a call that returns true leaves in them
\* the reader and the writer that call created.
C18_AllOrNothing ==
    /\ archiveRet = "false" =>
           /\ ArchiveSpanReader = preArchiveSpanReader
           /\ ArchiveSpanWriter = preArchiveSpanWriter
    /\ archiveRet = "true" =>
           /\ ArchiveSpanReader = ReaderRef(archiveCalls)
           /\ ArchiveSpanWriter = WriterRef(archiveCalls)

C18_Witness ==
    /\ archiveRet = "false"
    /\ factory.archive /\ ~factory.readerErr /\ factory.writerErr
    /\ ArchiveSpanReader = ReaderRef(1)
    /\ ArchiveSpanWriter = WriterRef(1)
    /\ archiveCalls = 2

(***************************************************************************)
(* The span store the harness drives through spanstore.Writer and          *)
(* spanstore.Reader.  A span is a TraceID (High, Low) and a SpanID; the    *)
(* zero TraceID is reserved.  A written span becomes visible to readers    *)
(* at the latest on Refresh.                                               *)
(***************************************************************************)
TraceIDs == [High : 0..1, Low : 0..1]

ZeroTraceID == [High |-> 0, Low |-> 0]

SpanIDs == 1..2

StoredSpans == [TraceID : TraceIDs \ { ZeroTraceID }, SpanID : SpanIDs]

ErrTraceNotFound == "ErrTraceNotFound"

NilTrace == [isNil |-> TRUE, Spans |-> {}]

TraceOf(spans) == [isNil |-> FALSE, Spans |-> spans]

GetTraceByLow(store, id) ==
    LET found == { sp \in store : sp.TraceID.Low = id.Low }
    IN  IF found = {} THEN [trace |-> NilTrace, err |-> ErrTraceNotFound]
        ELSE [trace |-> TraceOf(found), err |-> "nil"]

\* GetTrace: all the spans with that TraceID, ErrTraceNotFound when none exists.
GetTrace(store, id) ==
    LET found == { sp \in store : sp.TraceID = id }
    IN  IF found = {} THEN [trace |-> NilTrace, err |-> ErrTraceNotFound]
        ELSE [trace |-> TraceOf(found), err |-> "nil"]

StoreInit ==
    /\ pending = {}
    /\ visible = {}
    /\ gtQuery = <<>>
    /\ gtTrace = NilTrace
    /\ gtErr = "none"
    /\ readBack = FALSE

\* s.SpanWriter.WriteSpan(ctx, span), as writeTrace calls it for each span.
WriteSpan ==
    \E sp \in StoredSpans :
        /\ Cardinality(pending \cup visible \cup { sp }) <= MaxWrites
        /\ \/ pending' = pending \cup { sp } /\ UNCHANGED visible
           \/ visible' = visible \cup { sp } /\ UNCHANGED pending
        /\ UNCHANGED <<gtQuery, gtTrace, gtErr, readBack>>

\* s.Refresh(), or the backend catching up on its own.
Refresh ==
    /\ pending # {}
    /\ visible' = visible \cup pending
    /\ pending' = {}
    /\ UNCHANGED <<gtQuery, gtTrace, gtErr, readBack>>

\* s.SpanReader.GetTrace(ctx, id), for the trace written or the zero TraceID.
CallGetTrace ==
    \E id \in TraceIDs :
        LET r == GetTrace(visible, id)
        IN  /\ gtQuery' = << id >>
            /\ gtTrace' = r.trace
            /\ gtErr' = r.err
            /\ readBack' = (readBack \/ r.err = "nil")
            /\ UNCHANGED <<pending, visible>>

\* C10: GetTrace of the zero TraceID returns a nil trace and
\* ErrTraceNotFound whatever has been written and read before.
C10_ZeroTraceIDNotFound ==
    gtQuery = << ZeroTraceID >> => gtTrace = NilTrace /\ gtErr = ErrTraceNotFound

C10_Witness ==
    /\ gtQuery = << ZeroTraceID >>
    /\ gtErr = ErrTraceNotFound
    /\ readBack
    /\ Cardinality(visible) >= 2

(***************************************************************************)
(* The sampling store the harness drives through samplingstore.Store.      *)
(* A ServiceOperationProbabilities value is a map from some services to a  *)
(* map from operations to a probability (in thousandths).  The store       *)
(* keeps the snapshots in the order of their timestamps, which is the      *)
(* order of the inserts.                                                   *)
(***************************************************************************)
Hosts == { "newhostname1", "dell11eg843d" }

Services == { "new-srv", "new-srv3" }

Probabilities == { 100, 123 }

ProbabilityMaps ==
    UNION { [svcs -> [{ "op" } -> Probabilities]] : svcs \in SUBSET Services }

EmptyProbabilities == [svc \in {} |-> [op \in {} |-> 0]]

\* Every snapshot merged, a later one overriding an earlier one per service.
RECURSIVE MergedProbabilities(_)
MergedProbabilities(log) ==
    IF log = <<>> THEN EmptyProbabilities
    ELSE LET older == MergedProbabilities(SubSeq(log, 1, Len(log) - 1))
             newest == log[Len(log)].probabilities
         IN  [svc \in DOMAIN older \cup DOMAIN newest |->
                 IF svc \in DOMAIN newest THEN newest[svc] ELSE older[svc]]

\* GetLatestProbabilities: the probabilities of the most recent snapshot.
GetLatestProbabilities(log) ==
    IF log = <<>> THEN EmptyProbabilities ELSE log[Len(log)].probabilities

SampInit ==
    /\ snapshots = <<>>
    /\ latest = <<>>

\* s.SamplingStore.InsertProbabilitiesAndQPS(hostname, probabilities, qps)
InsertProbabilitiesAndQPS ==
    /\ Len(snapshots) < MaxSnapshots
    /\ \E h \in Hosts : \E pm \in ProbabilityMaps :
          snapshots' = Append(snapshots, [host |-> h, probabilities |-> pm])
    /\ UNCHANGED latest

\* s.SamplingStore.GetLatestProbabilities(); the result is kept with the
\* number of snapshots the store held when it was called.
CallGetLatestProbabilities ==
    /\ latest' = << [seen |-> Len(snapshots),
                     probabilities |-> GetLatestProbabilities(snapshots)] >>
    /\ UNCHANGED snapshots

\* C11: after any inserts from any hosts, GetLatestProbabilities returns
\* the probabilities of the snapshot inserted last, as a whole: a service
\* that only earlier snapshots hold is not in the result.
C11_LatestSnapshotWholesale ==
    (latest # <<>> /\ latest[1].seen > 0) =>
        /\ latest[1].probabilities = snapshots[latest[1].seen].probabilities
        /\ \A svc \in Services :
               svc \notin DOMAIN snapshots[latest[1].seen].probabilities
                   => svc \notin DOMAIN latest[1].probabilities

C11_Witness ==
    /\ Len(snapshots) = 2
    /\ snapshots[1].host # snapshots[2].host
    /\ DOMAIN snapshots[1].probabilities = { "new-srv3" }
    /\ DOMAIN snapshots[2].probabilities = { "new-srv" }
    /\ latest # <<>>
    /\ latest[1].seen = 2
    /\ latest[1].probabilities = snapshots[2].probabilities

(***************************************************************************)
(* The dependency store the harness drives through dependencystore.Writer  *)
(* and dependencystore.Reader.  Time is a small integer clock.  A snapshot *)
(* holds one link for a (Parent, Child) pair.  A store that does not       *)
(* return the Source column returns links with an empty Source.            *)
(***************************************************************************)
JaegerDependencyLinkSource == "jaeger"

Link(parent, child, count, source) ==
    [Parent |-> parent, Child |-> child, CallCount |-> count, Source |-> source]

\* The links of testGetDependencies, with the Source the harness expects.
ExpectedLinks(source) ==
    << Link("hello", "world", 1, source), Link("world", "hello", 3, source) >>

\* The lists of links written: the expected ones, any of them, in any order.
LinkLists(source) ==
    LET e == ExpectedLinks(source)
    IN  { <<>>, << e[1] >>, << e[2] >>, << e[1], e[2] >>, << e[2], e[1] >> }

RECURSIVE WithSource(_, _)
WithSource(links, returnsSource) ==
    IF links = <<>> THEN <<>>
    ELSE << IF returnsSource THEN Head(links)
            ELSE [Head(links) EXCEPT !.Source = ""] >>
         \o WithSource(Tail(links), returnsSource)

\* The links of the snapshots of store[k..] whose timestamp passes the test.
RECURSIVE LinksWithin(_, _, _, _)
LinksWithin(store, k, from, to) ==
    IF k > Len(store) THEN <<>>
    ELSE (IF from <= store[k].ts /\ store[k].ts <= to THEN store[k].links ELSE <<>>)
         \o LinksWithin(store, k + 1, from, to)

GetDependenciesAfterStart(store, endTs, lookback, returnsSource) ==
    WithSource(LinksWithin(store, 1, endTs - lookback + 1, endTs), returnsSource)

\* GetDependencies: the links of the snapshots in [endTs - lookback, endTs].
GetDependencies(store, endTs, lookback, returnsSource) ==
    WithSource(LinksWithin(store, 1, endTs - lookback, endTs), returnsSource)

\* A reader may return the links in another order than they were written
\* (the harness sorts them by Parent): as stored, or reversed.
RECURSIVE Reverse(_)
Reverse(seq) == IF seq = <<>> THEN <<>> ELSE Append(Reverse(Tail(seq)), Head(seq))

ReturnOrders(seq) == { seq, Reverse(seq) }

DepInit ==
    /\ depStore = <<>>
    /\ depReturnsSource \in BOOLEAN
    /\ depQuery = <<>>
    /\ depLinks = <<>>

\* s.DependencyWriter.WriteDependencies(time.Now(), expected)
WriteDependencies ==
    /\ Len(depStore) < MaxDepWrites
    /\ \E ts \in 0..MaxTime :
         \E links \in LinkLists(IF depReturnsSource THEN JaegerDependencyLinkSource ELSE "") :
            depStore' = Append(depStore, [ts |-> ts, links |-> links])
    /\ UNCHANGED <<depReturnsSource, depQuery, depLinks>>

\* s.refresh(t); s.DependencyReader.GetDependencies(ctx, time.Now(), lookback);
\* the query is kept with the number of snapshots the store held.
CallGetDependencies ==
    /\ \E now \in 0..MaxTime : \E lookback \in 0..MaxTime :
          /\ depQuery' = << [endTs |-> now, lookback |-> lookback,
                             seen |-> Len(depStore)] >>
          /\ depLinks' \in ReturnOrders(GetDependencies(depStore, now, lookback, depReturnsSource))
    /\ UNCHANGED <<depStore, depReturnsSource>>

BagOfLinks(links) == [l \in { links[k] : k \in DOMAIN links } |->
                         Cardinality({ k \in DOMAIN links : links[k] = l })]

\* C12: after one WriteDependencies(endTs, links) on a clean store,
\* GetDependencies(now, lookback) with endTs in [now - lookback, now]
\* returns the written links, each once, in some order, with the Source
\* emptied when the store does not return it.
C12_DependenciesRoundTrip ==
    (depQuery # <<>> /\ depQuery[1].seen = 1
       /\ depQuery[1].endTs - depQuery[1].lookback <= depStore[1].ts
       /\ depStore[1].ts <= depQuery[1].endTs) =>
        BagOfLinks(depLinks) = BagOfLinks(WithSource(depStore[1].links, depReturnsSource))

C12_Witness ==
    /\ depQuery # <<>>
    /\ depQuery[1].seen = 1
    /\ Len(depStore[1].links) = 2
    /\ depStore[1].ts = depQuery[1].endTs - depQuery[1].lookback
    /\ depQuery[1].lookback > 0
    /\ Len(depLinks) = 2
    /\ depLinks # depStore[1].links

(***************************************************************************)
(* loadParseAndWriteLargeTrace: the large trace built from the first span  *)
(* of the example_trace fixture.  Spans are 1-indexed here: largeTrace[k]  *)
(* is trace.Spans[k-1].  StartTime counts seconds.                         *)
(***************************************************************************)
LargeTraceSpans == 10008

FixtureSpanIDs == (1..MaxFixtureSpanID) \cup {LargeTraceSpans - 1, LargeTraceSpans}

FixtureSpans ==
    [SpanID : FixtureSpanIDs, StartTime : 0..MaxTime, OperationName : {"example"}]

\* Lines 358-368: Spans[0] is the fixture span itself; for i in 1..10007 a
\* copy of it gets SpanID i and StartTime + (i+1) seconds.
LargeTraceOf(span) ==
    [k \in 1..LargeTraceSpans |->
        IF k = 1 THEN span
        ELSE [span EXCEPT !.SpanID = k - 1,
                          !.StartTime = span.StartTime + ((k - 1) + 1)]]

LargeInit ==
    /\ fixtureSpan \in FixtureSpans
    /\ largeTrace = <<>>
    /\ largeWrites = 0

\* loadParseAndWriteLargeTrace, with the writeTrace it ends with: one
\* WriteSpan per span of the trace.
LoadParseAndWriteLargeTrace ==
    /\ largeTrace = <<>>
    /\ largeTrace' = LargeTraceOf(fixtureSpan)
    /\ largeWrites' = Len(largeTrace')
    /\ UNCHANGED fixtureSpan

\* C13: the large trace has 10008 spans; span i is the fixture span with
\* SpanID i and StartTime + i seconds, for every i in [0, 10008), and the
\* SpanIDs are pairwise distinct.
C13_LargeTraceSpansNumbered ==
    largeTrace # <<>> =>
        /\ Len(largeTrace) = LargeTraceSpans
        /\ \A k \in 1..Len(largeTrace) :
              largeTrace[k] = [fixtureSpan EXCEPT
                                  !.SpanID = k - 1,
                                  !.StartTime = fixtureSpan.StartTime + (k - 1)]
        /\ Cardinality({ largeTrace[k].SpanID : k \in 1..Len(largeTrace) })
               = Len(largeTrace)

(***************************************************************************)
(* tlscfg: CipherSuiteNamesToIDs and VersionNameToID.  allCiphers holds    *)
(* three of the suites crypto/tls lists, with their IANA identifiers; a    *)
(* nil []uint16 and an empty non-nil one are told apart by isNil.          *)
(***************************************************************************)
allCiphers ==
    [name \in { "TLS_AES_128_GCM_SHA256", "TLS_AES_256_GCM_SHA384",
                "TLS_ECDHE_RSA_WITH_AES_128_CBC_SHA" } |->
        CASE name = "TLS_AES_128_GCM_SHA256" -> 4865
          [] name = "TLS_AES_256_GCM_SHA384" -> 4866
          [] name = "TLS_ECDHE_RSA_WITH_AES_128_CBC_SHA" -> 49171]

versions ==
    [name \in { "1.0", "1.1", "1.2", "1.3" } |->
        CASE name = "1.0" -> 769
          [] name = "1.1" -> 770
          [] name = "1.2" -> 771
          [] name = "1.3" -> 772]

CipherNames == (DOMAIN allCiphers) \cup { "TLS_INVALID_CIPHER_SUITE" }

VersionNames == (DOMAIN versions) \cup { "Invalid", "", "1.4", "TLS1.2" }

CipherNameLists == UNION { [1..n -> CipherNames] : n \in 0..MaxCipherNames }

NilIDs == [isNil |-> TRUE, ids |-> <<>>]

RECURSIVE cipherLoopDistinct(_, _, _)
cipherLoopDistinct(names, k, ciphersIDs) ==
    IF k > Len(names) THEN [isNil |-> ciphersIDs.isNil, ids |-> ciphersIDs.ids, err |-> FALSE]
    ELSE IF names[k] \notin DOMAIN allCiphers
         THEN [isNil |-> TRUE, ids |-> <<>>, err |-> TRUE]
         ELSE IF \E j \in 1..Len(ciphersIDs.ids) : ciphersIDs.ids[j] = allCiphers[names[k]]
              THEN cipherLoopDistinct(names, k + 1, ciphersIDs)
              ELSE cipherLoopDistinct(names, k + 1,
                       [isNil |-> FALSE,
                        ids |-> Append(ciphersIDs.ids, allCiphers[names[k]])])

RECURSIVE cipherLoopPartial(_, _, _)
cipherLoopPartial(names, k, ciphersIDs) ==
    IF k > Len(names) THEN [isNil |-> ciphersIDs.isNil, ids |-> ciphersIDs.ids, err |-> FALSE]
    ELSE IF names[k] \notin DOMAIN allCiphers
         THEN [isNil |-> ciphersIDs.isNil, ids |-> ciphersIDs.ids, err |-> TRUE]
         ELSE cipherLoopPartial(names, k + 1,
                  [isNil |-> FALSE,
                   ids |-> Append(ciphersIDs.ids, allCiphers[names[k]])])

\* Lines 121-128: for each name, in order: an unknown name returns
\* (nil, error); a known one appends its ID to ciphersIDs.
RECURSIVE cipherLoop(_, _, _)
cipherLoop(names, k, ciphersIDs) ==
    IF k > Len(names) THEN [isNil |-> ciphersIDs.isNil, ids |-> ciphersIDs.ids, err |-> FALSE]
    ELSE IF names[k] \notin DOMAIN allCiphers
         THEN [isNil |-> TRUE, ids |-> <<>>, err |-> TRUE]
         ELSE cipherLoop(names, k + 1,
                  [isNil |-> FALSE,
                   ids |-> Append(ciphersIDs.ids, allCiphers[names[k]])])

CipherSuiteNamesToIDsDistinct(names) == cipherLoopDistinct(names, 1, NilIDs)

CipherSuiteNamesToIDsPartial(names) == cipherLoopPartial(names, 1, NilIDs)

\* var ciphersIDs []uint16 starts nil.
CipherSuiteNamesToIDs(names) == cipherLoop(names, 1, NilIDs)

VersionNameToIDDefault(versionName_) ==
    IF versionName_ \in DOMAIN versions
    THEN [id |-> versions[versionName_], err |-> FALSE]
    ELSE [id |-> versions["1.2"], err |-> FALSE]

VersionNameToID(versionName_) ==
    IF versionName_ \in DOMAIN versions
    THEN [id |-> versions[versionName_], err |-> FALSE]
    ELSE [id |-> 0, err |-> TRUE]

TlsInit ==
    /\ cipherNames = <<>>
    /\ cipherRet = [isNil |-> TRUE, ids |-> <<>>, err |-> FALSE]
    /\ versionName = <<>>
    /\ versionRet = [id |-> 0, err |-> FALSE]

CallCipherSuiteNamesToIDs ==
    /\ \E names \in CipherNameLists :
          /\ cipherNames' = << names >>
          /\ cipherRet' = CipherSuiteNamesToIDs(names)
    /\ UNCHANGED <<versionName, versionRet>>

CallVersionNameToID ==
    /\ \E name \in VersionNames :
          /\ versionName' = << name >>
          /\ versionRet' = VersionNameToID(name)
    /\ UNCHANGED <<cipherNames, cipherRet>>

AllSupported(names) == \A k \in 1..Len(names) : names[k] \in DOMAIN allCiphers

C14_ResultInv ==
    (cipherNames # <<>> /\ AllSupported(cipherNames[1])) =>
        /\ ~cipherRet.err
        /\ Len(cipherRet.ids) = Len(cipherNames[1])
        /\ \A k \in 1..Len(cipherNames[1]) :
              cipherRet.ids[k] = allCiphers[cipherNames[1][k]]
        /\ (cipherNames[1] = <<>> => cipherRet.isNil)

\* C14: for a list of supported names CipherSuiteNamesToIDs returns no
\* error and the names' IDs in input order, duplicates kept; a nil list and
\* no error for the empty input; and a call with the same input as the
\* previous one returns the same result.
C14_SupportedNamesToIDs ==
    /\ []C14_ResultInv
    /\ [][(cipherNames # <<>> /\ cipherNames' = cipherNames)
             => cipherRet' = cipherRet]_tlsVars

C14_Witness ==
    /\ cipherNames # <<>>
    /\ Len(cipherNames[1]) = 3
    /\ AllSupported(cipherNames[1])
    /\ cipherNames[1][1] = cipherNames[1][3]
    /\ cipherNames[1][1] # cipherNames[1][2]
    /\ Len(cipherRet.ids) = 3
    /\ ~cipherRet.err

\* C15: if any name of the input is not a supported cipher suite, wherever
\* it stands, CipherSuiteNamesToIDs returns an error and a nil list: no ID
\* resolved before the unknown name is returned.
C15_UnknownNameNilAndError ==
    (cipherNames # <<>> /\ ~AllSupported(cipherNames[1])) =>
        /\ cipherRet.err
        /\ cipherRet.isNil
        /\ cipherRet.ids = <<>>

C15_Witness ==
    /\ cipherNames # <<>>
    /\ Len(cipherNames[1]) = 3
    /\ AllSupported(SubSeq(cipherNames[1], 1, 2))
    /\ cipherNames[1][3] \notin DOMAIN allCiphers
    /\ cipherRet.err
    /\ cipherRet.isNil

\* C16: VersionNameToID returns the TLS version's identifier and no error
\* for exactly the names "1.0", "1.1", "1.2", "1.3", the four identifiers
\* being non-zero and distinct, and 0 with an error for every other name.
C16_VersionNameToID ==
    /\ versionName # <<>> =>
          IF versionName[1] \in { "1.0", "1.1", "1.2", "1.3" }
          THEN /\ ~versionRet.err
               /\ versionRet.id = versions[versionName[1]]
               /\ versionRet.id # 0
          ELSE versionRet.err /\ versionRet.id = 0
    /\ \A a, b \in { "1.0", "1.1", "1.2", "1.3" } :
          a # b => VersionNameToID(a).id # VersionNameToID(b).id

C16_Witness ==
    /\ versionName = << "Invalid" >>
    /\ versionRet.err
    /\ versionRet.id = 0

(***************************************************************************)
(* Specifications: one per part, the other parts idle.                     *)
(***************************************************************************)
AdjIdle ==
    /\ Spans = <<>>
    /\ Tags = <<>>
    /\ Process = <<>>
    /\ ProcessTags = <<>>
    /\ preSpans = <<>>
    /\ preTags = <<>>
    /\ preProcessTags = <<>>
    /\ inTags = <<>>
    /\ calls = "none"
    /\ ret = NoReturn

WaitIdle ==
    /\ wpc = "done"
    /\ wi = 0
    /\ evals = 0
    /\ sleeps = 0
    /\ lastStep = "none"
    /\ everTrue = FALSE
    /\ wresult = "none"

SkipIdle ==
    /\ SkipList = <<>>
    /\ tname = <<>>
    /\ skipped = "none"

ArchiveIdle ==
    /\ ArchiveSpanReader = NilRef
    /\ ArchiveSpanWriter = NilRef
    /\ preArchiveSpanReader = NilRef
    /\ preArchiveSpanWriter = NilRef
    /\ factory = NoFactory
    /\ factoryCalls = <<>>
    /\ logged = <<>>
    /\ archiveRet = "none"
    /\ archiveCalls = 0

StoreIdle == StoreInit

SampIdle == SampInit

DepIdle ==
    /\ depStore = <<>>
    /\ depReturnsSource = FALSE
    /\ depQuery = <<>>
    /\ depLinks = <<>>

LargeIdle ==
    /\ fixtureSpan = [SpanID |-> 1, StartTime |-> 0, OperationName |-> "example"]
    /\ largeTrace = <<>>
    /\ largeWrites = 0

TlsIdle == TlsInit

MoreIdle == SampIdle /\ DepIdle /\ LargeIdle /\ TlsIdle

RestIdle == AdjIdle /\ WaitIdle /\ SkipIdle /\ ArchiveIdle /\ StoreIdle

restVars == <<adjVars, waitVars, skipVars, archiveVars, storeVars>>

Init == AdjInit /\ WaitIdle /\ SkipIdle /\ ArchiveIdle /\ StoreIdle /\ MoreIdle

Next == Adjust /\ UNCHANGED <<waitVars, skipVars, archiveVars, storeVars, moreVars>>

Spec == Init /\ [][Next]_vars

InitWait == AdjIdle /\ WaitInit /\ SkipIdle /\ ArchiveIdle /\ StoreIdle /\ MoreIdle

NextWait ==
    \/ WaitIterate /\ UNCHANGED <<adjVars, skipVars, archiveVars, storeVars, moreVars>>
    \/ WaitSleep /\ UNCHANGED <<adjVars, skipVars, archiveVars, storeVars, moreVars>>
    \/ WaitReturn /\ UNCHANGED <<adjVars, skipVars, archiveVars, storeVars, moreVars>>

SpecWait == InitWait /\ [][NextWait]_vars

\* The call runs to its end: the goroutine that called waitForCondition is
\* scheduled, time.Sleep returns and the predicate returns.
SpecWaitFair == SpecWait /\ WF_vars(NextWait)

InitSkip == AdjIdle /\ WaitIdle /\ SkipInit /\ ArchiveIdle /\ StoreIdle /\ MoreIdle

NextSkip == RunSkipIfNeeded /\ UNCHANGED <<adjVars, waitVars, archiveVars, storeVars, moreVars>>

SpecSkip == InitSkip /\ [][NextSkip]_vars

InitArchive == AdjIdle /\ WaitIdle /\ SkipIdle /\ ArchiveInit /\ StoreIdle /\ MoreIdle

NextArchive == CallInitArchiveStorage /\ UNCHANGED <<adjVars, waitVars, skipVars, storeVars, moreVars>>

SpecArchive == InitArchive /\ [][NextArchive]_vars

InitStore == AdjIdle /\ WaitIdle /\ SkipIdle /\ ArchiveIdle /\ StoreInit /\ MoreIdle

NextStore ==
    \/ WriteSpan /\ UNCHANGED <<adjVars, waitVars, skipVars, archiveVars, moreVars>>
    \/ Refresh /\ UNCHANGED <<adjVars, waitVars, skipVars, archiveVars, moreVars>>
    \/ CallGetTrace /\ UNCHANGED <<adjVars, waitVars, skipVars, archiveVars, moreVars>>

SpecStore == InitStore /\ [][NextStore]_vars

InitSamp == RestIdle /\ SampInit /\ DepIdle /\ LargeIdle /\ TlsIdle

NextSamp ==
    \/ InsertProbabilitiesAndQPS /\ UNCHANGED <<restVars, depVars, largeVars, tlsVars>>
    \/ CallGetLatestProbabilities /\ UNCHANGED <<restVars, depVars, largeVars, tlsVars>>

SpecSamp == InitSamp /\ [][NextSamp]_vars

InitDep == RestIdle /\ SampIdle /\ DepInit /\ LargeIdle /\ TlsIdle

NextDep ==
    \/ WriteDependencies /\ UNCHANGED <<restVars, sampVars, largeVars, tlsVars>>
    \/ CallGetDependencies /\ UNCHANGED <<restVars, sampVars, largeVars, tlsVars>>

SpecDep == InitDep /\ [][NextDep]_vars

InitLarge == RestIdle /\ SampIdle /\ DepIdle /\ LargeInit /\ TlsIdle

NextLarge == LoadParseAndWriteLargeTrace /\ UNCHANGED <<restVars, sampVars, depVars, tlsVars>>

SpecLarge == InitLarge /\ [][NextLarge]_vars

InitTLS == RestIdle /\ SampIdle /\ DepIdle /\ LargeIdle /\ TlsInit

NextTLS ==
    \/ CallCipherSuiteNamesToIDs /\ UNCHANGED <<restVars, sampVars, depVars, largeVars>>
    \/ CallVersionNameToID /\ UNCHANGED <<restVars, sampVars, depVars, largeVars>>

SpecTLS == InitTLS /\ [][NextTLS]_vars

====
